---------------------------- MODULE Spec2Model ----------------------------
(* A model of src/DeepDL/apply_bpe.py: the BPE tokenizer (class BPE) and   *)
(* the functions encode, recursive_split, check_vocab_and_split and        *)
(* isolate_glossary.                                                       *)
(*                                                                         *)
(* A Python str is a sequence of one-character strings, a symbol is such a *)
(* sequence, a word (list or tuple of symbols) is a sequence of symbols.   *)
(* Indices are 1-based here and 0-based in the source.                     *)
EXTENDS Integers, Sequences, FiniteSets

(***************************************************************************)
(* Bounds of the model.                                                    *)
(***************************************************************************)
\* longest token handed to segment_tokens
MaxWordLen == 3
\* most lines of a merge table
MaxRules == 2
\* most segment_tokens calls on one BPE object
MaxCalls == 2
\* most symbols of a word handed to a pass of the merge loop
MaxSymbols == 4
\* longest word handed to _isolate_glossaries
MaxIsoLen == 3
\* most glossaries of a BPE object
MaxGlossaries == 2

(***************************************************************************)
(* Strings.                                                                *)
(***************************************************************************)
\* the end-of-word marker '</w>'
EOW == <<"<", "/", "w", ">">>

\* the number of characters right[:-4] and word[-1][:-4] cut off
MarkerLen == 4

\* the default separator '@@'
Separator == <<"@", "@">>

\* the characters of strip('\r\n ')
StripChars == {"\r", "\n", " "}

Range(s) == {s[i] : i \in DOMAIN s}

Min(S) == CHOOSE x \in S : \A y \in S : x <= y

SeqsUpTo(S, n) == UNION {[1..k -> S] : k \in 0..n}

\* ''.join(word)
RECURSIVE Join(_)
Join(word) == IF word = <<>> THEN <<>> ELSE Head(word) \o Join(Tail(word))

\* s[:-n]
DropLast(s, n) == IF Len(s) > n THEN SubSeq(s, 1, Len(s) - n) ELSE <<>>

\* s.endswith(suf)
EndsWith(s, suf) ==
    /\ Len(s) >= Len(suf)
    /\ SubSeq(s, Len(s) - Len(suf) + 1, Len(s)) = suf

\* sub occurs in s at 1-based position i
MatchAt(s, sub, i) ==
    /\ i + Len(sub) - 1 <= Len(s)
    /\ SubSeq(s, i, i + Len(sub) - 1) = sub

\* sub in s
Contains(s, sub) == \E i \in 1..(Len(s) + 1) : MatchAt(s, sub, i)

\* s.strip('\r\n ')
RECURSIVE LStrip(_)
LStrip(s) == IF s # <<>> /\ Head(s) \in StripChars THEN LStrip(Tail(s)) ELSE s

RECURSIVE RStrip(_)
RStrip(s) ==
    IF s # <<>> /\ s[Len(s)] \in StripChars THEN RStrip(DropLast(s, 1)) ELSE s

Strip(s) == RStrip(LStrip(s))

(***************************************************************************)
(* Glossaries.  A glossary is a regular expression in the source; the      *)
(* model's glossaries are literal, non-empty strings, for which the        *)
(* regular expression operations are the string operations below.          *)
(***************************************************************************)
\* re.match('^' + glossary + '$', word): '$' also matches before a final '\n'
FullMatch(glossary, word) == word = glossary \/ word = glossary \o <<"\n">>

\* re.split('(glossary)', word): the text between the leftmost non-overlapping
\* matches alternating with the matches, empty texts included
RECURSIVE ReSplit(_, _, _)
ReSplit(word, glossary, text) ==
    IF word = <<>> THEN <<text>>
    ELSE IF MatchAt(word, glossary, 1)
         THEN <<text, glossary>>
              \o ReSplit(SubSeq(word, Len(glossary) + 1, Len(word)), glossary, <<>>)
         ELSE ReSplit(Tail(word), glossary, Append(text, Head(word)))

NonEmpty(s) == s # <<>>

isolate_glossary(word, glossary) ==
    IF FullMatch(glossary, word) \/ ~Contains(word, glossary)
    THEN <<word>>
    ELSE LET split == ReSplit(word, glossary, <<>>)
             ending == split[Len(split)]
             segments == SelectSeq(DropLast(split, 1), NonEmpty)
         IN  IF ending # <<>> THEN Append(segments, Strip(ending)) ELSE segments

\* one round of the loop of _isolate_glossaries: every segment through one glossary
RECURSIVE IsolateEach(_, _)
IsolateEach(word_segments, gloss) ==
    IF word_segments = <<>> THEN <<>>
    ELSE isolate_glossary(Head(word_segments), gloss)
         \o IsolateEach(Tail(word_segments), gloss)

RECURSIVE IsolateFold(_, _)
IsolateFold(word_segments, glosses) ==
    IF glosses = <<>> THEN word_segments
    ELSE IsolateFold(IsolateEach(word_segments, Head(glosses)), Tail(glosses))

isolate_glossaries(word, glosses) == IsolateFold(<<word>>, glosses)

\* glossaries_regex and glossaries_regex.match(orig), the regex being
\* '^(g1|g2|...)$', and None when there is no glossary
GlossariesRegexMatch(glosses, orig) ==
    \E i \in DOMAIN glosses : FullMatch(glosses[i], orig)

(***************************************************************************)
(* The merge table: BPE.__init__.  A table is the list of the pairs read   *)
(* from the codes file, in file order.                                     *)
(***************************************************************************)
\* self.bpe_codes: pair -> rank, the first occurrence of a pair deciding
BpeCodes(table) ==
    [pair \in Range(table) |-> Min({i \in DOMAIN table : table[i] = pair}) - 1]

\* where a pair sits in the iteration order of the dict self.bpe_codes: the
\* dict is filled from the reversed list, so a pair sits at its last line
LastLine(table, pair) ==
    CHOOSE i \in DOMAIN table :
        /\ table[i] = pair
        /\ \A j \in DOMAIN table : table[j] = pair => j <= i

\* self.bpe_codes_reverse: pair[0] + pair[1] -> pair; of the pairs with one
\* concatenation the one written last wins, which is the one iterated last
BpeCodesReverse(table) ==
    [key \in {pair[1] \o pair[2] : pair \in Range(table)} |->
        CHOOSE pair \in Range(table) :
            /\ pair[1] \o pair[2] = key
            /\ \A other \in Range(table) :
                   other[1] \o other[2] = key
                       => LastLine(table, pair) <= LastLine(table, other)]

(***************************************************************************)
(* encode: one pass of the merge loop.                                     *)
(***************************************************************************)
PairAt(word, i) == <<word[i], word[i + 1]>>

\* the positions whose pair is in bpe_codes
Candidates(word, codes) ==
    {i \in 1..(Len(word) - 1) : PairAt(word, i) \in DOMAIN codes}

\* the sets of positions the list 'pairs' can hold: all candidates without
\* dropout; with dropout each candidate stays or goes with random.random()
Survivors(word, codes, drop) ==
    IF drop = 0 THEN {Candidates(word, codes)} ELSE SUBSET Candidates(word, codes)

\* min(pairs)[2], pairs holding (rank, position, pair) for the positions in S
Bigram(word, S, codes) ==
    PairAt(word,
           CHOOSE i \in S : \A j \in S :
               \/ codes[PairAt(word, i)] < codes[PairAt(word, j)]
               \/ codes[PairAt(word, i)] = codes[PairAt(word, j)] /\ i <= j)

\* positions = [i for (rank, i, pair) in pairs if pair == bigram]
Positions(word, S, bigram) ==
    LET Wanted(i) == i \in S /\ PairAt(word, i) = bigram
    IN  SelectSeq([i \in 1..(Len(word) - 1) |-> i], Wanted)

\* the loop 'for j in positions' and the extend after it; i is the next
\* symbol to copy
RECURSIVE MergeAt(_, _, _, _, _)
MergeAt(word, positions, i, new_word, merged) ==
    IF positions = <<>> THEN new_word \o SubSeq(word, i, Len(word))
    ELSE LET j == Head(positions)
         IN  IF j < i
             THEN MergeAt(word, Tail(positions), i, new_word, merged)
             ELSE MergeAt(word, Tail(positions), j + 2,
                          (new_word \o SubSeq(word, i, j - 1)) \o <<merged>>,
                          merged)

\* the same loop without 'if j < i: continue'
RECURSIVE MergeAtNoSkip(_, _, _, _, _)
MergeAtNoSkip(word, positions, i, new_word, merged) ==
    IF positions = <<>> THEN new_word \o SubSeq(word, i, Len(word))
    ELSE LET j == Head(positions)
         IN  MergeAtNoSkip(word, Tail(positions), j + 2,
                           (new_word \o SubSeq(word, i, j - 1)) \o <<merged>>,
                           merged)

MergePassNoSkip(word, S, codes) ==
    LET bigram == Bigram(word, S, codes)
    IN  MergeAtNoSkip(word, Positions(word, S, bigram), 1, <<>>,
                      bigram[1] \o bigram[2])

\* the body of 'while len(word) > 1' once pairs is not empty
MergePass(word, S, codes) ==
    LET bigram == Bigram(word, S, codes)
    IN  MergeAt(word, Positions(word, S, bigram), 1, <<>>, bigram[1] \o bigram[2])

(***************************************************************************)
(* encode: the end of the word, and the vocabulary.                        *)
(***************************************************************************)
\* the symbols the merge loop starts from
InitialWord(orig, ver) ==
    IF ver = <<0, 1>>
    THEN [i \in 1..Len(orig) |-> <<orig[i]>>] \o <<EOW>>
    ELSE [i \in 1..Len(orig) |->
             IF i = Len(orig) THEN <<orig[i]>> \o EOW ELSE <<orig[i]>>]

\* "don't print end-of-word symbols", but the suffix is left in place
StripMarkerKeepSuffix(word) ==
    IF word[Len(word)] = EOW THEN DropLast(word, 1) ELSE word

\* "don't print end-of-word symbols"
StripMarker(word) ==
    IF word[Len(word)] = EOW THEN DropLast(word, 1)
    ELSE IF EndsWith(word[Len(word)], EOW)
         THEN [word EXCEPT ![Len(word)] = DropLast(word[Len(word)], MarkerLen)]
         ELSE word

\* what a call yields: its items, or an exception
Items(out) == [raised |-> FALSE, out |-> out]
Raised == [raised |-> TRUE, out |-> <<>>]
Both(l, r) == IF l.raised \/ r.raised THEN Raised ELSE Items(l.out \o r.out)

\* the nesting at which the interpreter ends a recursion with RecursionError.
\* Every nested call of a recursion that ends follows one more key of the
\* reverse index, which a table of MaxRules lines bounds; a deeper nesting is
\* the recursion that never ends.
RecursionLimit == MaxRules + 1

RECURSIVE recursive_split(_, _, _, _, _)
recursive_split(segment, codes_reverse, voc, final, depth) ==
    LET key == IF final THEN segment \o EOW ELSE segment
    IN  IF depth > RecursionLimit THEN Raised
        ELSE IF key \notin DOMAIN codes_reverse THEN Items(<<segment>>)
        ELSE LET left == codes_reverse[key][1]
                 right == IF final
                          THEN DropLast(codes_reverse[key][2], MarkerLen)
                          ELSE codes_reverse[key][2]
                 l == IF left \o Separator \in voc THEN Items(<<left>>)
                      ELSE recursive_split(left, codes_reverse, voc, FALSE, depth + 1)
                 r == IF \/ final /\ right \in voc
                         \/ ~final /\ right \o Separator \in voc
                      THEN Items(<<right>>)
                      ELSE recursive_split(right, codes_reverse, voc, final, depth + 1)
             IN  Both(l, r)

\* the loop over orig[:-1]
RECURSIVE SplitInner(_, _, _)
SplitInner(segments, codes_reverse, voc) ==
    IF segments = <<>> THEN Items(<<>>)
    ELSE Both(IF Head(segments) \o Separator \in voc THEN Items(<<Head(segments)>>)
              ELSE recursive_split(Head(segments), codes_reverse, voc, FALSE, 1),
              SplitInner(Tail(segments), codes_reverse, voc))

\* orig[-1] of an empty tuple raises IndexError
check_vocab_and_split(orig, codes_reverse, voc) ==
    IF orig = <<>> THEN Raised
    ELSE LET segment == orig[Len(orig)]
         IN  Both(SplitInner(DropLast(orig, 1), codes_reverse, voc),
                  IF segment \in voc THEN Items(<<segment>>)
                  ELSE recursive_split(segment, codes_reverse, voc, TRUE, 1))

\* encode from the end of the merge loop to the value it caches and returns;
\* 'if vocab' is false for None and for an empty vocabulary
AfterLoop(word, codes_reverse, voc) ==
    LET stripped == StripMarker(word)
    IN  IF voc # {} THEN check_vocab_and_split(stripped, codes_reverse, voc)
        ELSE Items(stripped)

\* the merge loop without dropout: every candidate is in pairs
RECURSIVE MergeLoop(_, _)
MergeLoop(word, codes) ==
    IF Len(word) > 1 /\ Candidates(word, codes) # {}
    THEN MergeLoop(MergePass(word, Candidates(word, codes), codes), codes)
    ELSE word

\* encode(orig, ..., dropout=0) on an empty cache
encode0(o, ver, codes, codes_reverse, voc, glosses) ==
    IF GlossariesRegexMatch(glosses, o) \/ Len(o) = 1 THEN Items(<<o>>)
    ELSE IF ver = <<0, 1>> \/ (ver = <<0, 2>> /\ o # <<>>)
    THEN AfterLoop(MergeLoop(InitialWord(o, ver), codes), codes_reverse, voc)
    ELSE Raised

(***************************************************************************)
(* The state: a BPE object, and where a segment_tokens call on it stands.  *)
(***************************************************************************)
VARIABLES
    version,            \* self.version
    bpe_codes,          \* self.bpe_codes
    bpe_codes_reverse,  \* self.bpe_codes_reverse
    vocab,              \* self.vocab; {} stands for None as well
    glossaries,         \* self.glossaries
    cache,              \* self.cache
    todo,               \* the segment_tokens calls still to come
    pc,                 \* where the running call stands
    dropout,            \* the running call's dropout: 0, or 1 for any value > 0
    segs,               \* the segments of the token not yet encoded
    new_word,           \* the subwords of the token so far
    origins,            \* for each subword of new_word, the segment it is from
    orig,               \* encode's orig
    word,               \* encode's word
    ret,                \* what encode returned
    output,             \* what segment_tokens returned
    cache0,             \* the cache when the running encode was entered
    prev,               \* word before the last pass of the merge loop
    drawn,              \* the positions that survived dropout in that pass
    stack,              \* the running calls of recursive_split, the last on top
    yielded,            \* what the outermost recursive_split has yielded
    word_segments,      \* _isolate_glossaries' word_segments
    pending,            \* the glossaries _isolate_glossaries has yet to apply
    carved              \* the glossaries that were a segment after their round

config == <<version, bpe_codes, bpe_codes_reverse, vocab, glossaries>>

call == <<todo, pc, dropout, segs, new_word, origins, orig, word, ret, output,
          cache0, prev, drawn>>

split == <<stack, yielded>>

isolation == <<word_segments, pending, carved>>

vars == <<config, cache, call, split, isolation>>

\* the characters of the tokens
Letters == {"a", "b"}

Tokens == SeqsUpTo(Letters, MaxWordLen) \ {<<>>}

\* the versions a '#version:' line gives; no such line gives (0, 1)
Versions == {<<0, 1>>, <<0, 2>>, <<0, 3>>}

\* the lines a codes file is made of
Rules == {<< <<"a">>, <<"b">> >>,
          << <<"b">>, <<"b">> >>,
          << <<"b">>, EOW >>,
          << <<"a">>, <<"b">> \o EOW >>,
          << <<"a", "b">>, EOW >>,
          << <<"b", "<", "/">>, <<"w", ">">> >>,
          << <<"<", "/">>, <<"w", ">">> >>}

Tables == SeqsUpTo(Rules, MaxRules)

Vocabs == {{}, {<<"a">> \o Separator, <<"b">>}, {<<"b", "b">>, <<"a", "b">>}}

GlossaryLists == {<<>>, << <<"a">> >>}

\* the object BPE.__init__ leaves
Constructed(versions, tables, vocabs, glosslists) ==
    /\ version \in versions
    /\ \E table \in tables :
           /\ bpe_codes = BpeCodes(table)
           /\ bpe_codes_reverse = BpeCodesReverse(table)
    /\ vocab \in vocabs
    /\ glossaries \in glosslists
    /\ cache = <<>>

\* no segment_tokens call is running
NoCall ==
    /\ pc = "idle"
    /\ dropout = 0
    /\ segs = <<>>
    /\ new_word = <<>>
    /\ origins = <<>>
    /\ orig = <<>>
    /\ word = <<>>
    /\ ret = <<>>
    /\ output = <<>>
    /\ cache0 = <<>>
    /\ prev = <<>>
    /\ drawn = {}

NoSplit == stack = <<>> /\ yielded = <<>>

NoIsolation == word_segments = <<>> /\ pending = <<>> /\ carved = {}

Init ==
    /\ Constructed(Versions, Tables, Vocabs, GlossaryLists)
    /\ NoCall
    /\ todo = MaxCalls
    /\ NoSplit
    /\ NoIsolation

\* cache[key] = value
Store(c, key, value) ==
    [k \in DOMAIN c \cup {key} |-> IF k = key THEN value ELSE c[k]]

(***************************************************************************)
(* segment_tokens on one token, and the encode calls it makes.             *)
(***************************************************************************)
\* segment_tokens([token], drop) up to its first call of encode
SegmentTokens(token, drop) ==
    /\ pc \in {"idle", "emitted", "raised"}
    /\ todo > 0
    /\ todo' = todo - 1
    /\ dropout' = drop
    /\ segs' = isolate_glossaries(token, glossaries)
    /\ new_word' = <<>>
    /\ origins' = <<>>
    /\ orig' = <<>>
    /\ word' = <<>>
    /\ ret' = <<>>
    /\ output' = <<>>
    /\ prev' = <<>>
    /\ drawn' = {}
    /\ pc' = "segment"
    /\ UNCHANGED <<config, cache, cache0, split, isolation>>

\* encode returns value: the cache hit, the glossary, the single character
Return(value) ==
    /\ ret' = value
    /\ word' = <<>>
    /\ pc' = "returned"

\* encode up to its return, its exception or the start of the merge loop
EncodeEnter ==
    /\ pc = "segment"
    /\ segs # <<>>
    /\ LET o == Head(segs)
       IN  /\ orig' = o
           /\ cache0' = cache
           /\ prev' = <<>>
           /\ drawn' = {}
           /\ IF dropout = 0 /\ o \in DOMAIN cache
              THEN Return(cache[o]) /\ UNCHANGED cache
              ELSE IF GlossariesRegexMatch(glossaries, o)
              THEN Return(<<o>>) /\ cache' = Store(cache, o, <<o>>)
              ELSE IF Len(o) = 1
              THEN Return(<<o>>) /\ UNCHANGED cache
              ELSE IF version = <<0, 1>> \/ (version = <<0, 2>> /\ o # <<>>)
              THEN /\ word' = InitialWord(o, version)
                   /\ pc' = "loop"
                   /\ UNCHANGED <<cache, ret>>
              ELSE /\ pc' = "raised"
                   /\ UNCHANGED <<cache, ret, word>>
    /\ UNCHANGED <<config, todo, dropout, segs, new_word, origins, output, split,
                   isolation>>

\* one pass of the merge loop that merges
MergeStep ==
    /\ pc = "loop"
    /\ Len(word) > 1
    /\ \E S \in Survivors(word, bpe_codes, dropout) :
           /\ S # {}
           /\ word' = MergePass(word, S, bpe_codes)
           /\ prev' = word
           /\ drawn' = S
    /\ UNCHANGED <<config, cache, todo, pc, dropout, segs, new_word, origins,
                   orig, ret, output, cache0, split, isolation>>

\* the merge loop ends (one symbol left, or no pair survived), and encode
\* goes on to its return
LoopExit ==
    /\ pc = "loop"
    /\ Len(word) <= 1 \/ {} \in Survivors(word, bpe_codes, dropout)
    /\ LET res == AfterLoop(word, bpe_codes_reverse, vocab)
       IN  IF res.raised
           THEN /\ pc' = "raised"
                /\ UNCHANGED <<cache, ret, word>>
           ELSE /\ cache' = Store(cache, orig, res.out)
                /\ ret' = res.out
                /\ word' = res.out
                /\ pc' = "returned"
    /\ UNCHANGED <<config, todo, dropout, segs, new_word, origins, orig, output,
                   cache0, prev, drawn, split, isolation>>

\* segment_tokens takes what encode returned and goes to the next segment
Collect ==
    /\ pc = "returned"
    /\ new_word' = new_word \o ret
    /\ origins' = origins \o [i \in 1..Len(ret) |-> orig]
    /\ segs' = Tail(segs)
    /\ pc' = "segment"
    /\ UNCHANGED <<config, cache, todo, dropout, orig, word, ret, output,
                   cache0, prev, drawn, split, isolation>>

\* the token's subwords go out: the separator on all but the last
Emit ==
    /\ pc = "segment"
    /\ segs = <<>>
    /\ IF new_word = <<>>
       THEN pc' = "raised" /\ UNCHANGED output
       ELSE /\ output' = [i \in 1..Len(new_word) |->
                             IF i < Len(new_word) THEN new_word[i] \o Separator
                             ELSE new_word[i]]
            /\ pc' = "emitted"
    /\ UNCHANGED <<config, cache, todo, dropout, segs, new_word, origins, orig,
                   word, ret, cache0, prev, drawn, split, isolation>>

Next ==
    \/ \E token \in Tokens, drop \in {0, 1} : SegmentTokens(token, drop)
    \/ EncodeEnter
    \/ MergeStep
    \/ LoopExit
    \/ Collect
    \/ Emit

\* MaxCalls calls of segment_tokens on one object
Spec == Init /\ [][Next]_vars

\* one segment_tokens call on a new object
InitEncode ==
    /\ Constructed(Versions, Tables, Vocabs, GlossaryLists)
    /\ NoCall
    /\ todo = 1
    /\ NoSplit
    /\ NoIsolation

SpecEncode == InitEncode /\ [][Next]_vars

(***************************************************************************)
(* Properties of encode and segment_tokens.                                *)
(***************************************************************************)
Supported == version \in {<<0, 1>>, <<0, 2>>}

\* C1: an encode call made with dropout > 0 leaves the cache as it found it:
\* when the call has returned, the cache equals the cache at its entry.
C1_DropoutLeavesCache ==
    (pc = "returned" /\ dropout > 0) => cache = cache0

\* C2: an encode call with dropout = 0 returns what encode computes for its
\* word on an empty cache, whatever calls came before it on the same object,
\* and an entry the cache holds for the word is the value returned.
C2_NoDropoutIsPure ==
    (pc = "returned" /\ dropout = 0)
        => /\ Items(ret) = encode0(orig, version, bpe_codes, bpe_codes_reverse,
                                   vocab, glossaries)
           /\ orig \in DOMAIN cache => cache[orig] = ret

\* C3: no subword encode returns for a word without '</w>' in it contains
\* '</w>' (as a whole, as a suffix or inside), for either end-of-word
\* convention, any merge table, vocabulary and dropout outcome.
C3_NoMarkerInOutput ==
    (pc = "returned" /\ ~Contains(orig, EOW))
        => \A i \in DOMAIN ret : ~Contains(ret[i], EOW)

\* encode has returned, under dropout, a word that a pass of the merge loop
\* merged into the one symbol 'ab</w>' and the vocabulary check took apart
\* again through the reverse index, in final mode
C3_Witness ==
    /\ pc = "returned"
    /\ dropout = 1
    /\ vocab # {}
    /\ orig = <<"a", "b">>
    /\ prev # <<>>
    /\ Len(MergePass(prev, drawn, bpe_codes)) = 1
    /\ Len(ret) > 1

\* C4: an object whose version is neither (0, 1) nor (0, 2) does not exist
\* after construction, so no encode or segment_tokens call returns on one.
C4_UnsupportedVersionReturnsNothing ==
    ~Supported => pc \notin {"returned", "emitted"}

\* C5: with a vocabulary, a subword that segment_tokens emits with the
\* separator is one that is in the vocabulary with the separator or has no
\* entry in the reverse index, and the subword it emits bare is in the
\* vocabulary as it is or has no entry under the final-mode key.  (Stated for
\* the subwords of segments of two characters and more that are no glossary:
\* encode returns a single character, and a glossary, before any test.)
C5_TestedAsEmitted ==
    (pc = "emitted" /\ vocab # {})
        => \A i \in DOMAIN new_word :
               (Len(origins[i]) > 1 /\ ~GlossariesRegexMatch(glossaries, origins[i]))
                   => IF i < Len(new_word)
                      THEN \/ new_word[i] \o Separator \in vocab
                           \/ new_word[i] \notin DOMAIN bpe_codes_reverse
                      ELSE \/ new_word[i] \in vocab
                           \/ new_word[i] \o EOW \notin DOMAIN bpe_codes_reverse

\* C10: in the merge loop the symbols of word, joined, are the input word
\* followed by '</w>'; and the subwords encode returns for a word of two
\* characters or more, under a supported version, are non-empty and, joined,
\* are the input word.
C10_Lossless ==
    /\ pc = "loop" => Join(word) = orig \o EOW
    /\ (pc = "returned" /\ Len(orig) >= 2 /\ ~Contains(orig, EOW) /\ Supported)
           => /\ Join(ret) = orig
              /\ \A i \in DOMAIN ret : ret[i] # <<>>

(***************************************************************************)
(* One pass of the merge loop, on any word of symbols.                     *)
(***************************************************************************)
PassSymbols == {<<"a">>, <<"b">>}

PassWords == SeqsUpTo(PassSymbols, MaxSymbols) \ {<<>>}

PassRules == {<< <<"a">>, <<"a">> >>,
              << <<"a">>, <<"b">> >>,
              << <<"b">>, <<"a">> >>,
              << <<"a", "a">>, <<"a">> >>,
              << <<"a", "a">>, <<"a", "a">> >>}

\* encode stands at 'while len(word) > 1' with some word and some merge table
InitPass ==
    /\ Constructed({<<0, 1>>}, SeqsUpTo(PassRules, MaxRules), {{}}, {<<>>})
    /\ todo = 0
    /\ pc = "loop"
    /\ dropout \in {0, 1}
    /\ word \in PassWords
    /\ segs = <<>>
    /\ new_word = <<>>
    /\ origins = <<>>
    /\ orig = <<>>
    /\ ret = <<>>
    /\ output = <<>>
    /\ cache0 = <<>>
    /\ prev = <<>>
    /\ drawn = {}
    /\ NoSplit
    /\ NoIsolation

SpecPass == InitPass /\ [][MergeStep]_vars

\* the pair of lowest rank among the pairs at the positions S
LowestPair(w, S, codes) ==
    CHOOSE p \in {PairAt(w, i) : i \in S} :
        \A i \in S : codes[p] <= codes[PairAt(w, i)]

\* left to right from symbol k: merge the winning pair where it survived, go
\* on after the merged pair, copy every other symbol
RECURSIVE RefScan(_, _, _, _)
RefScan(w, S, best, k) ==
    IF k > Len(w) THEN <<>>
    ELSE IF k \in S /\ PairAt(w, k) = best
         THEN <<w[k] \o w[k + 1]>> \o RefScan(w, S, best, k + 2)
         ELSE <<w[k]>> \o RefScan(w, S, best, k + 1)

RefPass(w, S, codes) == RefScan(w, S, LowestPair(w, S, codes), 1)

\* C7: a pass of the merge loop merges the surviving pair of lowest rank at
\* every surviving position, left to right, skipping a position whose left
\* symbol an earlier merge of the pass consumed, and copies the other symbols
\* in order; [x, x, x] with both positions surviving becomes [xx, x].
C7_PassIsReference ==
    (pc = "loop" /\ prev # <<>>)
        => /\ word = RefPass(prev, drawn, bpe_codes)
           /\ (prev = << <<"a">>, <<"a">>, <<"a">> >> /\ drawn = {1, 2})
                  => word = << <<"a", "a">>, <<"a">> >>

\* the pass has run on [x, x, x] with the pair (x, x) surviving at both positions
C7_Witness ==
    /\ pc = "loop"
    /\ prev = << <<"a">>, <<"a">>, <<"a">> >>
    /\ drawn = {1, 2}
    /\ word = << <<"a", "a">>, <<"a">> >>

(***************************************************************************)
(* recursive_split, call by call.                                          *)
(***************************************************************************)
Frame(segment, final) ==
    [segment |-> segment, final |-> final, at |-> "call", left |-> <<>>,
     right |-> <<>>]

Top == stack[Len(stack)]

Pop == SubSeq(stack, 1, Len(stack) - 1)

\* the running call goes on at 'at'
Resume(at) == [stack EXCEPT ![Len(stack)].at = at]

\* recursive_split is called on some segment with some reverse index
InitSplit ==
    /\ Constructed({<<0, 1>>}, Tables, Vocabs \ {{}}, {<<>>})
    /\ NoCall
    /\ todo = 0
    /\ \E segment \in Tokens, final \in BOOLEAN :
           stack = <<Frame(segment, final)>>
    /\ yielded = <<>>
    /\ NoIsolation

\* the try block: the lookup, and 'yield segment' when it fails
SplitLookup ==
    /\ pc = "idle"
    /\ stack # <<>>
    /\ Top.at = "call"
    /\ LET key == IF Top.final THEN Top.segment \o EOW ELSE Top.segment
       IN  IF key \notin DOMAIN bpe_codes_reverse
           THEN /\ yielded' = Append(yielded, Top.segment)
                /\ stack' = Pop
           ELSE /\ stack' = [stack EXCEPT
                       ![Len(stack)].at = "left",
                       ![Len(stack)].left = bpe_codes_reverse[key][1],
                       ![Len(stack)].right =
                           IF Top.final
                           THEN DropLast(bpe_codes_reverse[key][2], MarkerLen)
                           ELSE bpe_codes_reverse[key][2]]
                /\ UNCHANGED yielded
    /\ UNCHANGED <<config, cache, call, isolation>>

\* a nested call of recursive_split, or RecursionError when the interpreter
\* allows no deeper nesting
Recurse(at, segment, final) ==
    IF Len(stack) < RecursionLimit
    THEN /\ stack' = Append(Resume(at), Frame(segment, final))
         /\ UNCHANGED pc
    ELSE /\ stack' = <<>>
         /\ pc' = "raised"

\* 'if left + separator in vocab', and its else
SplitLeft ==
    /\ pc = "idle"
    /\ stack # <<>>
    /\ Top.at = "left"
    /\ IF Top.left \o Separator \in vocab
       THEN /\ yielded' = Append(yielded, Top.left)
            /\ stack' = Resume("right")
            /\ UNCHANGED pc
       ELSE /\ Recurse("right", Top.left, FALSE)
            /\ UNCHANGED yielded
    /\ UNCHANGED <<config, cache, todo, dropout, segs, new_word, origins, orig,
                   word, ret, output, cache0, prev, drawn, isolation>>

\* 'if (final and right in vocab) or (not final and right + separator in
\* vocab)', and its else
SplitRight ==
    /\ pc = "idle"
    /\ stack # <<>>
    /\ Top.at = "right"
    /\ IF \/ Top.final /\ Top.right \in vocab
          \/ ~Top.final /\ Top.right \o Separator \in vocab
       THEN /\ yielded' = Append(yielded, Top.right)
            /\ stack' = Resume("end")
            /\ UNCHANGED pc
       ELSE /\ Recurse("end", Top.right, Top.final)
            /\ UNCHANGED yielded
    /\ UNCHANGED <<config, cache, todo, dropout, segs, new_word, origins, orig,
                   word, ret, output, cache0, prev, drawn, isolation>>

\* the generator is exhausted
SplitEnd ==
    /\ pc = "idle"
    /\ stack # <<>>
    /\ Top.at = "end"
    /\ stack' = Pop
    /\ UNCHANGED <<config, cache, call, yielded, isolation>>

NextSplit == SplitLookup \/ SplitLeft \/ SplitRight \/ SplitEnd

SpecSplit == InitSplit /\ [][NextSplit]_vars

\* C8: every nested call of recursive_split is on a string strictly shorter
\* than the string of the call that made it, and the recursion ends without
\* exhausting the interpreter's stack.
C8_CallsShrink ==
    /\ \A i \in 2..Len(stack) :
           Len(stack[i].segment) < Len(stack[i - 1].segment)
    /\ pc # "raised"

(***************************************************************************)
(* _isolate_glossaries, glossary by glossary.                              *)
(***************************************************************************)
IsoWords == SeqsUpTo(Letters \cup {"\r"}, MaxIsoLen) \ {<<>>}

IsoGlossaries == {<<"a">>, <<"b">>, <<"a", "b">>}

\* _isolate_glossaries is called on some word
InitIso ==
    /\ Constructed({<<0, 1>>}, {<<>>}, {{}}, SeqsUpTo(IsoGlossaries, MaxGlossaries))
    /\ NoCall
    /\ todo = 0
    /\ NoSplit
    /\ \E w \in IsoWords : word_segments = <<w>>
    /\ pending = glossaries
    /\ carved = {}

\* one round of 'for gloss in self.glossaries'
IsolateRound ==
    /\ pending # <<>>
    /\ word_segments' = IsolateEach(word_segments, Head(pending))
    /\ pending' = Tail(pending)
    /\ carved' = IF Head(pending) \in Range(word_segments')
                 THEN carved \cup {Head(pending)}
                 ELSE carved
    /\ UNCHANGED <<config, cache, call, split>>

SpecIso == InitIso /\ [][IsolateRound]_vars

\* C6: a glossary that was a segment of its own after its round of the fold
\* is a segment of its own in what _isolate_glossaries returns.
C6_CarvedStaysWhole ==
    pending = <<>> => \A gloss \in carved : gloss \in Range(word_segments)

\* C9: no segment that isolate_glossary returns is the empty string.
C9_NoEmptySegment ==
    Len(pending) < Len(glossaries)
        => \A i \in DOMAIN word_segments : word_segments[i] # <<>>

=============================================================================
